---- MODULE Spec2Model ----
(***************************************************************************)
(* Model of the DeepRL-pytorch building blocks:                            *)
(*   - Algorithms/ddpg/replay_buffer.py : class ReplayBuffer               *)
(*   - Algorithms/trpo/core.py          : MLPActorCritic / CNNActorCritic  *)
(* The replay buffer is one live ReplayBuffer object plus the file that    *)
(* save/load go through; constructing again replaces the live object and   *)
(* keeps the file, which is how a second buffer reads what a first wrote.  *)
(***************************************************************************)
EXTENDS Integers, Sequences, FiniteSets, TLC

\* ---------------------------------------------------------------- bounds
MaxCap == 2          \* largest capacity passed to ReplayBuffer(size)
MaxAppends == 3      \* appends per constructed buffer
MaxNeg == 1          \* most negative batch_size tried is -MaxNeg
MaxN == 2            \* largest cardinality n of a Discrete / MultiBinary space
MaxActDim == 2       \* largest extent of one axis of a Box action space
MaxObsDim == 4       \* largest extent of one axis of an observation
MaxChannels == 1     \* largest channel count of an image observation
MaxBatch == 2        \* largest observation batch passed to step / calculate_kl

VARIABLES
    max_size,        \* self.max_size
    buffer,          \* self.buffer : deque(maxlen), [maxlen, items]
    size,            \* self.size   : the instance attribute set in __init__
    file,            \* content of the file at `filename`, or NoFile
    appended,        \* history: transitions appended since construction,
                     \*          kept for as long as no load has happened
    loaded,          \* history: a load assigned self.buffer since construction
    saved,           \* history: the saving object's state at the last save
    last,            \* the last call, its arguments, outcome and return value
    ac               \* the last ActorCritic construction (trpo/core.py)

bufvars == <<max_size, buffer, size, file, appended, loaded, saved>>
vars == <<max_size, buffer, size, file, appended, loaded, saved, last, ac>>

\* ------------------------------------------------------------ transitions
\* A transition is the list [state, action, reward, next_state, terminal]
\* built by append; the five fields of one transition are told apart by
\* their tens digit so that a misaligned batch is visible.
Tr(i) == <<i, 10 + i, 20 + i, 30 + i, i % 2>>
Transitions == {Tr(1), Tr(2)}

\* --------------------------------------------------- collections.deque
Deque(maxlen) == [maxlen |-> maxlen, items |-> <<>>]

DequeAppend(dq, x) ==
    IF dq.maxlen = 0 THEN dq
    ELSE IF Len(dq.items) = dq.maxlen
         THEN [dq EXCEPT !.items = Append(Tail(dq.items), x)]
         ELSE [dq EXCEPT !.items = Append(dq.items, x)]

RECURSIVE DequeExtend(_, _)
DequeExtend(dq, xs) ==
    IF xs = <<>> THEN dq
    ELSE DequeExtend(DequeAppend(dq, Head(xs)), Tail(xs))

\* ------------------------------------------------------------- pickle
\* pickle.dump of a deque writes its reduce value: the class, the
\* constructor arguments ((), maxlen) and the items as a list; pickle.load
\* builds deque((), maxlen) and appends the listed items one by one.
NoFile == [cls |-> "nofile", maxlen |-> 0, listitems |-> <<>>]

PickleDump(dq) == [cls |-> "deque", maxlen |-> dq.maxlen, listitems |-> dq.items]

PickleLoad(p) == DequeExtend(Deque(p.maxlen), p.listitems)

\* ------------------------------------------------ python attribute lookup
\* __init__ stores buffer, max_size and size in the instance dictionary; the
\* class defines the functions append, sample, size, save and load.  A plain
\* function is a non-data descriptor, so the instance dictionary wins.
InstanceDict == {"buffer", "max_size", "size"}
ClassFunctions == {"append", "sample", "size", "save", "load"}

GetAttr(name) ==
    IF name \in InstanceDict THEN "instance_attribute"
    ELSE IF name \in ClassFunctions THEN "bound_method"
    ELSE "AttributeError"

\* -------------------------------------------------------- call records
NoRet == <<>>
Pre == [max_size |-> max_size, buffer |-> buffer, size |-> size]
Call(op, k, outcome, msg, idxs, ret) ==
    [op |-> op, k |-> k, outcome |-> outcome, msg |-> msg,
     idxs |-> idxs, ret |-> ret, pre |-> Pre]

\* ------------------------------------------------------------ __init__
Construct(sz) ==
    /\ max_size' = sz
    /\ buffer' = Deque(sz)
    /\ size' = 0
    /\ appended' = <<>>
    /\ loaded' = FALSE
    /\ last' = [op |-> "init", k |-> sz, outcome |-> "ok", msg |-> "",
                idxs |-> <<>>, ret |-> NoRet,
                pre |-> [max_size |-> sz, buffer |-> Deque(sz), size |-> 0]]
    /\ UNCHANGED <<file, saved, ac>>

\* -------------------------------------------------------------- append
AppendSize_unguarded(sz, mx) == sz + 1

AppendSize(sz, mx) == IF sz < mx THEN sz + 1 ELSE sz

append(t) ==
    /\ Len(appended) < MaxAppends
    /\ size' = AppendSize(size, max_size)
    /\ buffer' = DequeAppend(buffer, t)
    /\ appended' = IF loaded THEN appended ELSE Append(appended, t)
    /\ last' = Call("append", 0, "ok", "", <<>>, NoRet)
    /\ UNCHANGED <<max_size, file, loaded, saved, ac>>

\* -------------------------------------------------------------- sample
\* np.random.choice(a, size=k, replace=False) with an integer population a:
\* the argument checks it makes, in the order it makes them.
ChoiceError_emptyPopulation(a, k) ==
    IF a <= 0 THEN "a must be greater than 0"
    ELSE IF k > a THEN "Cannot take a larger sample than population when 'replace=False'"
    ELSE IF k < 0 THEN "negative dimensions are not allowed"
    ELSE ""

ChoiceError(a, k) ==
    IF a <= 0 /\ k # 0 THEN "a must be greater than 0 unless no samples are taken"
    ELSE IF k > a THEN "Cannot take a larger sample than population when 'replace=False'"
    ELSE IF k < 0 THEN "negative dimensions are not allowed"
    ELSE ""

\* permutation(a)[:k] : every sequence of k pairwise distinct indices of 0..a-1
ChoiceIdxs(a, k) ==
    {s \in [1..k -> 0..(a - 1)] : \A i, j \in 1..k : i # j => s[i] # s[j]}

\* self.buffer[i] for a 0-based index i
DequeInRange(dq, i) == i >= 0 /\ i < Len(dq.items)
DequeGet(dq, i) == dq.items[i + 1]

\* np.asarray(x, dtype="float32"): the modelled fields are integers below
\* 2^24, which float32 represents exactly; larger ones lose their low bits.
Float32(n) == IF n < 16777216 /\ n > -16777216 THEN n ELSE (n \div 2) * 2
AsArray(x) == [i \in 1..Len(x) |-> Float32(x[i])]

\* list(zip(*batch)): one tuple per field, as long as the batch; no tuple
\* at all for an empty batch.
Zip(batch) ==
    IF batch = <<>> THEN <<>>
    ELSE [f \in 1..5 |-> [j \in 1..Len(batch) |-> batch[j][f]]]

SampleReturn(dq, idxs) ==
    LET batch == [j \in 1..Len(idxs) |-> DequeGet(dq, idxs[j])]
        cols == Zip(batch)
    IN  [f \in 1..Len(cols) |-> AsArray(cols[f])]

\* What the call np.random.choice(a, size=k, replace=False) can produce: one
\* error, or any one of the index sequences.
ChoiceOutcomes_withReplacement(a, k) ==
    IF a <= 0 /\ k # 0
    THEN {[err |-> "a must be greater than 0 unless no samples are taken", idxs |-> <<>>]}
    ELSE IF k < 0 THEN {[err |-> "negative dimensions are not allowed", idxs |-> <<>>]}
    ELSE {[err |-> "", idxs |-> s] : s \in [1..k -> 0..(a - 1)]}

ChoiceOutcomes(a, k) ==
    IF ChoiceError(a, k) # ""
    THEN {[err |-> ChoiceError(a, k), idxs |-> <<>>]}
    ELSE {[err |-> "", idxs |-> s] : s \in ChoiceIdxs(a, k)}

sample(k) ==
    /\ \E c \in ChoiceOutcomes(size, k) :
          IF c.err # ""
          THEN last' = Call("sample", k, "ValueError", c.err, <<>>, NoRet)
          ELSE IF \A j \in 1..Len(c.idxs) : DequeInRange(buffer, c.idxs[j])
          THEN last' = Call("sample", k, "ok", "", c.idxs, SampleReturn(buffer, c.idxs))
          ELSE last' = Call("sample", k, "IndexError", "deque index out of range",
                            c.idxs, NoRet)
    /\ UNCHANGED <<bufvars, ac>>

\* ----------------------------------------------------------- buf.size()
\* The method body is `return len(self.buffer)`; what the call reaches is
\* decided by the attribute lookup of the name `size` on the instance.
SizeMethod(dq) == Len(dq.items)

call_size ==
    /\ IF GetAttr("size") = "bound_method"
       THEN last' = Call("size", 0, "ok", "", <<>>, <<SizeMethod(buffer)>>)
       ELSE last' = Call("size", 0, "TypeError", "'int' object is not callable", <<>>, NoRet)
    /\ UNCHANGED <<bufvars, ac>>

\* ---------------------------------------------------------------- save
save ==
    /\ file' = PickleDump(buffer)
    /\ saved' = [items |-> buffer.items, max_size |-> max_size,
                 onlyAppends |-> ~loaded, valid |-> TRUE]
    /\ last' = Call("save", 0, "ok", "", <<>>, NoRet)
    /\ UNCHANGED <<max_size, buffer, size, appended, loaded, ac>>

\* ---------------------------------------------------------------- load
\* open() fails on a missing file; otherwise self.buffer is assigned first
\* and the assert on maxlen runs after the assignment.
LoadAssert_length(dq, mx) == Len(dq.items) <= mx

LoadAssert(dq, mx) == dq.maxlen = mx

load_unassigned ==
    IF file = NoFile
    THEN /\ last' = Call("load", 0, "FileNotFoundError", "", <<>>, NoRet)
         /\ UNCHANGED <<bufvars, ac>>
    ELSE /\ last' = IF LoadAssert(buffer, max_size)
                    THEN Call("load", 0, "ok", "", <<>>, NoRet)
                    ELSE Call("load", 0, "AssertionError",
                              "Attempted to load buffer with different max size", <<>>, NoRet)
         /\ UNCHANGED <<bufvars, ac>>

load ==
    IF file = NoFile
    THEN /\ last' = Call("load", 0, "FileNotFoundError", "", <<>>, NoRet)
         /\ UNCHANGED <<bufvars, ac>>
    ELSE /\ buffer' = PickleLoad(file)
         /\ loaded' = TRUE
         /\ appended' = <<>>
         /\ IF LoadAssert(buffer', max_size)
            THEN last' = Call("load", 0, "ok", "", <<>>, NoRet)
            ELSE last' = Call("load", 0, "AssertionError",
                              "Attempted to load buffer with different max size", <<>>, NoRet)
         /\ UNCHANGED <<max_size, size, file, saved, ac>>

\* ================================================ trpo/core.py: ActorCritic
\* ------------------------------------------------------------ gym spaces
\* What the constructors read of a space: its class (isinstance), its shape
\* attribute (a tuple, or None for the composite spaces) and, where the
\* class has one, its attribute n.
Discrete(n) == [kind |-> "Discrete", hasShape |-> TRUE, shape |-> <<>>, hasN |-> TRUE, n |-> n]
Box(shape) == [kind |-> "Box", hasShape |-> TRUE, shape |-> shape, hasN |-> FALSE, n |-> 0]
MultiBinary(n) == [kind |-> "MultiBinary", hasShape |-> TRUE, shape |-> <<n>>, hasN |-> TRUE, n |-> n]
TupleSpace == [kind |-> "Tuple", hasShape |-> FALSE, shape |-> <<>>, hasN |-> FALSE, n |-> 0]

Shapes(maxRank, maxDim) == UNION {[1..r -> 1..maxDim] : r \in 0..maxRank}

ActionSpaces ==
    {Discrete(n) : n \in 1..MaxN} \cup {Box(sh) : sh \in Shapes(2, MaxActDim)}
    \cup {MultiBinary(n) : n \in 1..MaxN} \cup {TupleSpace}

ObservationShapes ==
    Shapes(1, MaxObsDim) \cup {<<c, h, w>> : c \in 1..MaxChannels, h \in 1..MaxObsDim, w \in 1..MaxObsDim}

\* conv_layer_sizes: a list of (output_channel, kernel_size, stride)
ConvLayerSizes == {<<>>, <<<<2, 2, 2>>>>}

Ok(v) == [err |-> "", val |-> v]
Raise(e) == [err |-> e, val |-> 0]

ActDim_lastAxis(space) ==
    IF ~space.hasShape THEN Raise("TypeError")
    ELSE IF Len(space.shape) = 0
         THEN IF space.hasN THEN Ok(space.n) ELSE Raise("AttributeError")
         ELSE Ok(space.shape[Len(space.shape)])

\* try: act_dim = action_space.shape[0]  except IndexError: act_dim = action_space.n
ActDim(space) ==
    IF ~space.hasShape THEN Raise("TypeError")
    ELSE IF Len(space.shape) = 0
         THEN IF space.hasN THEN Ok(space.n) ELSE Raise("AttributeError")
         ELSE Ok(space.shape[1])

\* mlp(sizes, ...): one Linear(sizes[j], sizes[j+1]) per consecutive pair;
\* the hidden sizes do not enter any of the properties, the ends do.
mlp(inWidth, outWidth) == [in |-> inWidth, out |-> outWidth]

\* The dummy forward pass of calc_shape through cnn(...): every layer is
\* Conv2d, activation, BatchNorm2d, run in training mode on a batch of one.
RECURSIVE ConvForward(_, _, _, _)
ConvForward(c, h, w, layers) ==
    IF layers = <<>> THEN Ok(c * h * w)
    ELSE LET out == Head(layers)[1]
             kernel == Head(layers)[2]
             stride == Head(layers)[3]
             h2 == ((h - kernel) \div stride) + 1
             w2 == ((w - kernel) \div stride) + 1
         IN  IF h < kernel \/ w < kernel THEN Raise("RuntimeError")
             ELSE IF h2 * w2 = 1 THEN Raise("ValueError")
             ELSE ConvForward(out, h2, w2, Tail(layers))

\* cnn(obs_dim[0], ...) and then calc_shape: C, H, W = obs_dim
calc_shape(obs_dim, conv) ==
    IF Len(obs_dim) = 0 THEN Raise("IndexError")
    ELSE IF Len(obs_dim) # 3 THEN Raise("ValueError")
    ELSE ConvForward(obs_dim[1], obs_dim[2], obs_dim[3], conv)

NoModule == [class |-> "none", net |-> mlp(0, 0), log_std |-> 0, start_dim |-> 0, id |-> 0]

\* The networks.  id tells the instances of one construction apart: every
\* constructor call allocates its own parameters.
MLPCritic(obs_dim, id) ==
    [class |-> "MLPCritic", net |-> mlp(obs_dim, 1), log_std |-> 0, start_dim |-> 0, id |-> id]

MLPCategoricalActor(obs_dim, act_dim, id) ==
    [class |-> "MLPCategoricalActor", net |-> mlp(obs_dim, act_dim),
     log_std |-> 0, start_dim |-> 0, id |-> id]

MLPGaussianActor(obs_dim, act_dim, id) ==
    [class |-> "MLPGaussianActor", net |-> mlp(obs_dim, act_dim),
     log_std |-> act_dim, start_dim |-> 0, id |-> id]

CNNCritic(start_dim, id) ==
    [class |-> "CNNCritic", net |-> mlp(start_dim, 1), log_std |-> 0,
     start_dim |-> start_dim, id |-> id]

CNNCategoricalActor(start_dim, act_dim, id) ==
    [class |-> "CNNCategoricalActor", net |-> mlp(start_dim, act_dim),
     log_std |-> 0, start_dim |-> start_dim, id |-> id]

CNNGaussianActor(start_dim, act_dim, id) ==
    [class |-> "CNNGaussianActor", net |-> mlp(start_dim, act_dim),
     log_std |-> act_dim, start_dim |-> start_dim, id |-> id]

\* The branch of the if / elif on the action space's class; a space of any
\* other class takes neither branch.
ActorBranch(space) ==
    IF space.kind = "Box" THEN "gaussian"
    ELSE IF space.kind = "Discrete" THEN "categorical"
    ELSE "none"

\* What a module carries besides its architecture: its parameters, named
\* by the constructor call whose random initialisation drew them (every
\* constructor call draws its own), the training flag that nn.Module starts
\* with, and the BatchNorm running statistics, which the dummy forward pass
\* of calc_shape has already written where there is a conv layer.
ModuleState(id, hasBatchNorm) ==
    [params |-> id, training |-> TRUE,
     stats |-> IF hasBatchNorm THEN "dummy_input" ELSE "none"]

NoResult ==
    [op |-> "none", n |-> 0, outcome |-> "none", a |-> <<>>, v |-> <<>>, logp |-> <<>>,
     module |-> "none", old |-> "none", new |-> "none", out |-> <<>>, kl |-> "none"]

Constructed(cls, obs_shape, space, conv, attrs, pi, pi_old, v) ==
    [cls |-> cls, obs_shape |-> obs_shape, space |-> space, conv |-> conv,
     outcome |-> "ok", attrs |-> attrs, pi |-> pi, pi_old |-> pi_old, v |-> v,
     mods |-> [m \in {"pi", "pi_old", "v"} |->
                 ModuleState((IF m = "pi" THEN pi ELSE IF m = "pi_old" THEN pi_old ELSE v).id,
                             cls = "CNNActorCritic" /\ conv # <<>>)],
     res |-> NoResult]

Rejected(cls, obs_shape, space, conv, err) ==
    [cls |-> cls, obs_shape |-> obs_shape, space |-> space, conv |-> conv,
     outcome |-> err, attrs |-> {}, pi |-> NoModule, pi_old |-> NoModule, v |-> NoModule,
     mods |-> [m \in {"pi", "pi_old", "v"} |-> ModuleState(0, FALSE)],
     res |-> NoResult]

\* MLPActorCritic.__init__
MLPActorCriticInit(obs_shape, space) ==
    IF Len(obs_shape) = 0 THEN Rejected("MLPActorCritic", obs_shape, space, <<>>, "IndexError")
    ELSE IF ActDim(space).err # ""
         THEN Rejected("MLPActorCritic", obs_shape, space, <<>>, ActDim(space).err)
    ELSE LET obs_dim == obs_shape[1]
             act_dim == ActDim(space).val
             v == MLPCritic(obs_dim, 3)
         IN  IF ActorBranch(space) = "gaussian"
             THEN Constructed("MLPActorCritic", obs_shape, space, <<>>, {"pi", "pi_old", "v"},
                              MLPGaussianActor(obs_dim, act_dim, 1),
                              MLPGaussianActor(obs_dim, act_dim, 2), v)
             ELSE IF ActorBranch(space) = "categorical"
             THEN Constructed("MLPActorCritic", obs_shape, space, <<>>, {"pi", "pi_old", "v"},
                              MLPCategoricalActor(obs_dim, act_dim, 1),
                              MLPCategoricalActor(obs_dim, act_dim, 2), v)
             ELSE Constructed("MLPActorCritic", obs_shape, space, <<>>, {"v"},
                              NoModule, NoModule, v)

\* CNNActorCritic.__init__ : every network runs calc_shape on the same
\* obs_dim and conv_layer_sizes, so the first one to be built raises if
\* any does.
CNNActorCriticInit(obs_shape, space, conv) ==
    IF ActDim(space).err # ""
    THEN Rejected("CNNActorCritic", obs_shape, space, conv, ActDim(space).err)
    ELSE IF calc_shape(obs_shape, conv).err # ""
         THEN Rejected("CNNActorCritic", obs_shape, space, conv, calc_shape(obs_shape, conv).err)
    ELSE LET start_dim == calc_shape(obs_shape, conv).val
             act_dim == ActDim(space).val
             v == CNNCritic(start_dim, 3)
         IN  IF ActorBranch(space) = "gaussian"
             THEN Constructed("CNNActorCritic", obs_shape, space, conv, {"pi", "pi_old", "v"},
                              CNNGaussianActor(start_dim, act_dim, 1),
                              CNNGaussianActor(start_dim, act_dim, 2), v)
             ELSE IF ActorBranch(space) = "categorical"
             THEN Constructed("CNNActorCritic", obs_shape, space, conv, {"pi", "pi_old", "v"},
                              CNNCategoricalActor(start_dim, act_dim, 1),
                              CNNCategoricalActor(start_dim, act_dim, 2), v)
             ELSE Constructed("CNNActorCritic", obs_shape, space, conv, {"v"},
                              NoModule, NoModule, v)

\* One ActorCritic object is followed from its construction on.
ConstructMLP(obs_shape, space) ==
    /\ ac.cls = "none"
    /\ ac' = MLPActorCriticInit(obs_shape, space)
    /\ UNCHANGED <<bufvars, last>>

ConstructCNN(obs_shape, space, conv) ==
    /\ ac.cls = "none"
    /\ ac' = CNNActorCriticInit(obs_shape, space, conv)
    /\ UNCHANGED <<bufvars, last>>

\* ------------------------------------------------------------- tensors
\* A tensor is its shape and its elements, indexed by 1-based index tuples.
\* The elements are symbolic: which observation and which action dimension
\* a number belongs to, or the set of terms a reduction added up.
SeqMax(s) == IF s = <<>> THEN 0 ELSE CHOOSE m \in {s[i] : i \in 1..Len(s)} :
                                        \A i \in 1..Len(s) : s[i] <= m
Idx(shape) ==
    {ix \in [1..Len(shape) -> 1..SeqMax(shape)] : \A i \in 1..Len(shape) : ix[i] <= shape[i]}
Tensor(shape, f(_)) == [shape |-> shape, at |-> [ix \in Idx(shape) |-> f(ix)]]
Front(s) == SubSeq(s, 1, Len(s) - 1)

\* torch broadcasting: shapes are aligned at their last axis; two extents
\* are compatible when they are equal or one of them is 1.
Pad(s, r) == [i \in 1..r |-> IF i <= r - Len(s) THEN 1 ELSE s[i - (r - Len(s))]]
BroadcastRank(s1, s2) == IF Len(s1) > Len(s2) THEN Len(s1) ELSE Len(s2)
CanBroadcast(s1, s2) ==
    \A i \in 1..BroadcastRank(s1, s2) :
        LET a == Pad(s1, BroadcastRank(s1, s2))[i]
            b == Pad(s2, BroadcastRank(s1, s2))[i]
        IN  a = b \/ a = 1 \/ b = 1
BroadcastShape(s1, s2) ==
    [i \in 1..BroadcastRank(s1, s2) |->
        LET a == Pad(s1, BroadcastRank(s1, s2))[i]
            b == Pad(s2, BroadcastRank(s1, s2))[i]
        IN  IF a = 1 THEN b ELSE a]
\* the element of a tensor of `shape` that position ix of the broadcast reads
Project(ix, shape) ==
    [i \in 1..Len(shape) |-> IF shape[i] = 1 THEN 1 ELSE ix[i + (Len(ix) - Len(shape))]]

\* Tensor.squeeze(): every axis of extent 1 is removed
Squeeze(t) ==
    LET kept == SelectSeq([i \in 1..Len(t.shape) |-> i], LAMBDA i : t.shape[i] # 1)
        pos(i) == CHOOSE k \in 1..Len(kept) : kept[k] = i
    IN  Tensor([k \in 1..Len(kept) |-> t.shape[kept[k]]],
               LAMBDA ix : t.at[[i \in 1..Len(t.shape) |->
                                   IF t.shape[i] = 1 THEN 1 ELSE ix[pos(i)]]])

\* torch.squeeze(x, -1) as far as the shape goes
SqueezeLastShape(shape) ==
    IF shape # <<>> /\ shape[Len(shape)] = 1 THEN Front(shape) ELSE shape

\* t.sum(axis=-1) over a tensor of term sets
SumLast(t) ==
    Tensor(Front(t.shape),
           LAMBDA ix : UNION {t.at[Append(ix, k)] : k \in 1..t.shape[Len(t.shape)]})

\* ---------------------------------------------------------- distributions
\* The output of a network's last Linear layer on a batch: one row per
\* observation (no row axis for one unbatched observation of an MLP).
ObsOf(ix, rank) == IF rank <= 1 THEN 1 ELSE ix[1]
NetOutput(batch_shape, width) ==
    Tensor(batch_shape \o <<width>>,
           LAMBDA ix : [obs |-> ObsOf(ix, Len(batch_shape) + 1), dim |-> ix[Len(ix)]])

\* Normal(mu, std) with std of shape (act_dim,): batch_shape is mu's shape
Normal(mu) == [family |-> "gaussian", batch_shape |-> mu.shape, param_shape |-> mu.shape]
\* Categorical(logits=logits): batch_shape is the shape without the last axis
Categorical(logits) ==
    [family |-> "categorical", batch_shape |-> Front(logits.shape), param_shape |-> logits.shape]

\* pi.sample(): one draw per element of the batch shape
Sample(pi) ==
    Tensor(pi.batch_shape,
           LAMBDA ix : [obs |-> ObsOf(ix, Len(pi.param_shape)),
                        dim |-> IF pi.family = "gaussian" THEN ix[Len(ix)] ELSE 0])

\* whether log_prob can broadcast act against the distribution at all
LogProbOk(pi, act) ==
    IF pi.family = "gaussian" THEN CanBroadcast(act.shape, pi.batch_shape)
    ELSE CanBroadcast(act.shape \o <<1>>, pi.param_shape)

\* Normal.log_prob(act): elementwise over the broadcast of act and the
\* batch shape.  Categorical.log_prob(act): act.unsqueeze(-1) is broadcast
\* against the logits, its first column gathers, the last axis is squeezed.
LogProb(pi, act) ==
    IF pi.family = "gaussian"
    THEN Tensor(BroadcastShape(act.shape, pi.batch_shape),
                     LAMBDA ix :
                        LET d == Project(ix, pi.batch_shape)
                        IN {[dist |-> [obs |-> ObsOf(d, Len(pi.param_shape)), dim |-> d[Len(d)]],
                             act |-> act.at[Project(ix, act.shape)]]})
    ELSE Tensor(Front(BroadcastShape(act.shape \o <<1>>, pi.param_shape)),
                     LAMBDA ix :
                        LET d == Project(Append(ix, 1), pi.param_shape)
                        IN {[dist |-> [obs |-> ObsOf(d, Len(pi.param_shape)), dim |-> 0],
                             act |-> act.at[Project(ix, act.shape)]]})

\* _log_prob_from_distribution: the Gaussian actors sum over the last axis
LogProbFromDistribution(pi, act) ==
    IF pi.family = "gaussian" THEN SumLast(LogProb(pi, act))
    ELSE LogProb(pi, act)

\* _distribution(obs) of an actor on a batch of the given batch shape
Distribution(actor, batch_shape) ==
    IF actor.class \in {"MLPGaussianActor", "CNNGaussianActor"}
    THEN Normal(NetOutput(batch_shape, actor.net.out))
    ELSE Categorical(NetOutput(batch_shape, actor.net.out))

\* ------------------------------------------------------------------ step
StepReturn(op, n, pi, a, v_shape) ==
    IF LogProbOk(pi, a)
    THEN [NoResult EXCEPT !.op = op, !.n = n, !.outcome = "ok", !.a = a,
                          !.v = [shape |-> v_shape],
                          !.logp = LogProbFromDistribution(pi, a)]
    ELSE [NoResult EXCEPT !.op = op, !.n = n, !.outcome = "shape error"]

\* MLPActorCritic.step on one observation (n = 0) or a batch of n: the
\* networks act on the last axis and keep the others.
MLPStep(acrec, n) ==
    LET batch_shape == IF n = 0 THEN <<>> ELSE <<n>>
        pi == Distribution(acrec.pi, batch_shape)
    IN  StepReturn("step", n, pi, Sample(pi), SqueezeLastShape(batch_shape \o <<1>>))

\* CNNActorCritic.step: a 3-axis observation is unsqueezed to a batch of
\* one, view(-1, start_dim) keeps one row per observation, the sampled
\* action is squeezed before its log-probability is taken.
CNNStep(acrec, n) ==
    LET batch_shape == IF n = 0 THEN <<1>> ELSE <<n>>
        pi == Distribution(acrec.pi, batch_shape)
    IN  StepReturn("step", n, pi, Squeeze(Sample(pi)), SqueezeLastShape(batch_shape \o <<1>>))

StepOf(acrec, n) ==
    IF acrec.cls = "CNNActorCritic" THEN CNNStep(acrec, n) ELSE MLPStep(acrec, n)

\* self.pi.eval(); self.v.eval()
EvalModes_syncSnapshot(mods) ==
    [mods EXCEPT !["pi"].training = FALSE, !["v"].training = FALSE,
                 !["pi_old"].params = mods["pi"].params]

EvalModes(mods) == [mods EXCEPT !["pi"].training = FALSE, !["v"].training = FALSE]

step(n) ==
    /\ ac.outcome = "ok"
    /\ IF "pi" \in ac.attrs
       THEN ac' = [ac EXCEPT !.mods = EvalModes(ac.mods), !.res = StepOf(ac, n)]
       ELSE ac' = [ac EXCEPT !.res = [NoResult EXCEPT !.op = "step", !.n = n,
                                                      !.outcome = "AttributeError"]]
    /\ UNCHANGED <<bufvars, last>>

\* act(obs) is step(obs)[0]
act(n) ==
    /\ ac.outcome = "ok"
    /\ IF "pi" \in ac.attrs
       THEN ac' = [ac EXCEPT !.mods = EvalModes(ac.mods),
                             !.res = [StepOf(ac, n) EXCEPT !.op = "act", !.v = <<>>,
                                                           !.logp = <<>>]]
       ELSE ac' = [ac EXCEPT !.res = [NoResult EXCEPT !.op = "act", !.n = n,
                                                      !.outcome = "AttributeError"]]
    /\ UNCHANGED <<bufvars, last>>

\* ------------------------------------------------ float32 arithmetic, abstracted
\* The categorical KL is followed through the float32 operations that
\* decide it.  softmax computes exp(x - max) / sum: exp of a gap of 104 or
\* more is below the smallest float32 subnormal and is exactly 0.  A
\* probability is either that 0 or a positive number, named by its own gap
\* and the bag of the gaps of its row (equal names, equal numbers).
RowMax(row) == SeqMax(row)
Softmax(row) ==
    [a \in 1..Len(row) |->
        [zero |-> RowMax(row) - row[a] >= 104,
         gap |-> RowMax(row) - row[a],
         others |-> [g \in {RowMax(row) - row[b] : b \in 1..Len(row)} |->
                        Cardinality({b \in 1..Len(row) : RowMax(row) - row[b] = g})]]]

\* p0 / p1, torch.log and p0 * (...) on these, by IEEE 754: 0/0 is nan,
\* x/0 is inf, log 0 is -inf, log 1 is 0, 0 * inf and 0 * nan are nan.
ProbDiv(p0, p1) ==
    IF p0.zero /\ p1.zero THEN "nan"
    ELSE IF p0.zero THEN "zero"
    ELSE IF p1.zero THEN "inf"
    ELSE IF p0 = p1 THEN "one" ELSE "finite"

FLog(x) ==
    IF x = "nan" THEN "nan"
    ELSE IF x = "zero" THEN "-inf"
    ELSE IF x = "inf" THEN "inf"
    ELSE IF x = "one" THEN "zero" ELSE "finite"

ProbMul(p, x) ==
    IF x = "nan" THEN "nan"
    ELSE IF p.zero THEN (IF x \in {"inf", "-inf"} THEN "nan" ELSE "zero")
    ELSE x

\* torch.sum / mean of a set of such values
FSum(xs) ==
    IF "nan" \in xs \/ ("inf" \in xs /\ "-inf" \in xs) THEN "nan"
    ELSE IF "inf" \in xs THEN "inf"
    ELSE IF "-inf" \in xs THEN "-inf"
    ELSE IF xs \subseteq {"zero"} THEN "zero" ELSE "finite"

\* MLPCategoricalActor / CNNCategoricalActor.calculate_kl:
\* torch.sum(p0 * torch.log(p0 / p1), 1).mean()
CategoricalKL(logits0, logits1) ==
    LET perObs(i) ==
            LET p0 == Softmax(logits0[i])
                p1 == Softmax(logits1[i])
            IN  FSum({ProbMul(p0[a], FLog(ProbDiv(p0[a], p1[a]))) : a \in 1..Len(p0)})
    IN  FSum({perObs(i) : i \in 1..Len(logits0)})

\* The Gaussian KL is followed exactly: a number is (n/d) * e^(l/2), which
\* holds the means (integers), std = exp(log_std) for log_std a multiple of
\* one half, and what the formula makes of them; fin marks a finite number
\* outside this form.
Q(n, d) == [n |-> n, d |-> d, l |-> 0, fin |-> FALSE]
FExp(l) == [n |-> 1, d |-> 1, l |-> l, fin |-> FALSE]
Fin == [n |-> 1, d |-> 1, l |-> 0, fin |-> TRUE]
GDiv(x, y) ==
    IF x.fin \/ y.fin THEN Fin
    ELSE [n |-> x.n * y.d, d |-> x.d * y.n, l |-> x.l - y.l, fin |-> FALSE]
GLog(x) ==
    IF x.fin \/ x.n # x.d THEN Fin ELSE Q(x.l, 2)
GPow2(x) ==
    IF x.fin THEN Fin ELSE [n |-> x.n * x.n, d |-> x.d * x.d, l |-> 2 * x.l, fin |-> FALSE]
GAdd(x, y) ==
    IF x.fin \/ y.fin THEN Fin
    ELSE IF x.n = 0 THEN y
    ELSE IF y.n = 0 THEN x
    ELSE IF x.l = y.l
         THEN [n |-> x.n * y.d + y.n * x.d, d |-> x.d * y.d, l |-> x.l, fin |-> FALSE]
         ELSE Fin
GSub(x, y) == GAdd(x, IF y.fin THEN Fin ELSE [y EXCEPT !.n = 0 - y.n])
GScale(c, x) == IF x.fin THEN Fin ELSE [x EXCEPT !.n = c * x.n]
RECURSIVE GSumSeq(_)
GSumSeq(xs) == IF xs = <<>> THEN Q(0, 1) ELSE GAdd(Head(xs), GSumSeq(Tail(xs)))
GClass(x) == IF ~x.fin /\ x.n = 0 THEN "zero" ELSE "finite"

\* MLPGaussianActor / CNNGaussianActor.calculate_kl:
\* kl = log(std/std_old) + (std_old^2 + (mu_old - mu)^2) / (2.0 * std^2) - 0.5
\* return kl.sum(-1, keepdim=True).mean()
GaussianKLTerm(mu_old, l_old, mu, l) ==
    GSub(GAdd(GLog(GDiv(FExp(l), FExp(l_old))),
              GDiv(GAdd(GPow2(FExp(l_old)), GPow2(GSub(Q(mu_old, 1), Q(mu, 1)))),
                   GScale(2, GPow2(FExp(l))))),
         Q(1, 2))

GaussianKL(mu0, l0, mu1, l1) ==
    LET perObs(i) == GSumSeq([d \in 1..Len(l1) |->
                                GaussianKLTerm(mu0[i][d], l0[d], mu1[i][d], l1[d])])
        total == GSumSeq([i \in 1..Len(mu0) |-> perObs(i)])
    IN  GClass(GDiv(total, Q(Len(mu0), 1)))

\* ------------------------------------------------- forward, calculate_kl
\* A forward pass through a module in training mode rewrites the running
\* statistics of its BatchNorm layers (buffers, not parameters); in eval
\* mode, or without such layers, it writes nothing.
TrainForward(mods, m) ==
    IF mods[m].training /\ mods[m].stats # "none"
    THEN [mods EXCEPT ![m].stats = "observations"]
    ELSE mods

ActorNames == {"pi", "pi_old"}
Actor(acrec, m) == IF m = "pi" THEN acrec.pi ELSE acrec.pi_old
IsGaussian(actor) == actor.class \in {"MLPGaussianActor", "CNNGaussianActor"}

\* Actor.forward(obs, act) of self.pi or self.pi_old on a batch of n
\* observations (n = 0: one unbatched observation, MLP only), with the
\* actions taken on them or with act = None.
forward(m, n, withAct) ==
    /\ ac.outcome = "ok"
    /\ "pi" \in ac.attrs
    /\ n >= 1 \/ ac.cls = "MLPActorCritic"
    /\ LET pi == Distribution(Actor(ac, m), IF n = 0 THEN <<>> ELSE <<n>>)
       IN  ac' = [ac EXCEPT
                    !.mods = TrainForward(ac.mods, m),
                    !.res = [NoResult EXCEPT
                               !.op = "forward", !.n = n, !.outcome = "ok", !.module = m,
                               !.logp = IF withAct
                                        THEN LogProbFromDistribution(pi, Sample(pi))
                                        ELSE <<>>]]
    /\ UNCHANGED <<bufvars, last>>

\* What a network can put out on a batch: one row of act_dim numbers per
\* observation.  The logits of the MLP actor come from a Linear layer and
\* are unbounded (0 and 200 stand for a small and a saturated one), those
\* of the CNN actor pass through Tanh and stay in [-1, 1]; the means are
\* small integers, log_std is counted in halves (-1 is the initial -0.5).
OutValues(actor) ==
    IF actor.class = "MLPCategoricalActor" THEN {0, 200} ELSE {0, 1}
LogStdValues == {0 - 1, 0}
LogStds(actor) ==
    IF IsGaussian(actor) THEN [1..actor.net.out -> LogStdValues] ELSE {<<>>}
AllOutputs(actor, n) ==
    {[rows |-> r, log_std |-> l] :
        r \in [1..n -> [1..actor.net.out -> OutValues(actor)]], l \in LogStds(actor)}
\* the outputs that are the same on every observation and single out the
\* first action (or do not)
PeakedOutputs(actor, n) ==
    {[rows |-> [i \in 1..n |-> [d \in 1..actor.net.out |-> IF d = 1 THEN x ELSE 0]],
      log_std |-> IF IsGaussian(actor) THEN [d \in 1..actor.net.out |-> l] ELSE <<>>] :
        x \in OutValues(actor), l \in LogStdValues}

\* of these, the outputs of a module whose log_std is still the initial one
FreshOutputs(actor, n) ==
    {o \in PeakedOutputs(actor, n) : \A d \in DOMAIN o.log_std : o.log_std[d] = 0 - 1}

KLOf(actor, out_old, out_new) ==
    IF IsGaussian(actor)
    THEN GaussianKL(out_old.rows, out_old.log_std, out_new.rows, out_new.log_std)
    ELSE CategoricalKL(out_old.rows, out_new.rows)

\* calculate_kl(old_policy, new_policy, obs) on a batch of n observations;
\* out[m] is what module m puts out on them.  Both policies are run
\* forward, nothing else is written.
calculate_kl(old, new, n, out) ==
    /\ ac.outcome = "ok"
    /\ "pi" \in ac.attrs
    /\ ac' = [ac EXCEPT
                !.mods = TrainForward(TrainForward(ac.mods, old), new),
                !.res = [NoResult EXCEPT
                           !.op = "calculate_kl", !.n = n, !.outcome = "ok",
                           !.old = old, !.new = new, !.out = out,
                           !.kl = KLOf(ac.pi, out[old], out[new])]]
    /\ UNCHANGED <<bufvars, last>>

\* ------------------------------------------------------- specification
NoAC == Rejected("none", <<>>, TupleSpace, <<>>, "none")
NoSaved == [items |-> <<>>, max_size |-> 0, onlyAppends |-> FALSE, valid |-> FALSE]

Init ==
    /\ max_size \in 1..MaxCap
    /\ buffer = Deque(max_size)
    /\ size = 0
    /\ file = NoFile
    /\ appended = <<>>
    /\ loaded = FALSE
    /\ saved = NoSaved
    /\ last = [op |-> "init", k |-> max_size, outcome |-> "ok", msg |-> "",
               idxs |-> <<>>, ret |-> NoRet,
               pre |-> [max_size |-> max_size, buffer |-> Deque(max_size), size |-> 0]]
    /\ ac = NoAC

Next ==
    \/ \E sz \in 1..MaxCap : Construct(sz)
    \/ \E t \in Transitions : append(t)
    \/ \E k \in (0 - MaxNeg)..(MaxCap + 1) : sample(k)
    \/ call_size
    \/ save
    \/ load

Spec == Init /\ [][Next]_vars

\* The actor-critic constructions, next to one untouched replay buffer.
InitAC == Init /\ max_size = 1

NextAC ==
    \/ \E o \in ObservationShapes, a \in ActionSpaces : ConstructMLP(o, a)
    \/ \E o \in ObservationShapes, a \in ActionSpaces, c \in ConvLayerSizes :
          ConstructCNN(o, a, c)

SpecAC == InitAC /\ [][NextAC]_vars

\* The calls on a constructed actor-critic: one object of each class, on
\* each action space and conv stack, followed through any sequence of calls.
InitWith(objects) ==
    /\ max_size = 1
    /\ buffer = Deque(max_size)
    /\ size = 0
    /\ file = NoFile
    /\ appended = <<>>
    /\ loaded = FALSE
    /\ saved = NoSaved
    /\ last = [op |-> "init", k |-> max_size, outcome |-> "ok", msg |-> "",
               idxs |-> <<>>, ret |-> NoRet,
               pre |-> [max_size |-> max_size, buffer |-> Deque(max_size), size |-> 0]]
    /\ ac \in objects

RunObjects ==
    {o \in {MLPActorCriticInit(<<MaxObsDim>>, a) : a \in ActionSpaces}
           \cup {CNNActorCriticInit(<<1, MaxObsDim, MaxObsDim>>, a, c) :
                    a \in ActionSpaces, c \in ConvLayerSizes} :
        o.outcome = "ok"}

InitRun == InitWith(RunObjects)

NextRun ==
    \/ \E n \in 0..MaxBatch : step(n)
    \/ \E n \in 0..MaxBatch : act(n)
    \/ \E m \in ActorNames, n \in 0..MaxBatch, withAct \in BOOLEAN : forward(m, n, withAct)
    \/ \E old \in ActorNames, new \in ActorNames, n \in 1..MaxBatch :
          \E out \in [ActorNames -> FreshOutputs(ac.pi, n)] : calculate_kl(old, new, n, out)

SpecRun == InitRun /\ [][NextRun]_vars

\* calculate_kl as a function of the network outputs: an actor-critic of
\* each of the four actor classes, the old policy's output drawn freely.
KLObjects ==
    {MLPActorCriticInit(<<MaxObsDim>>, a) : a \in {Discrete(k) : k \in 1..MaxN}
                                                  \cup {Box(<<k>>) : k \in 1..MaxActDim}}
    \cup {CNNActorCriticInit(<<1, MaxObsDim, MaxObsDim>>, a, <<>>) :
              a \in {Discrete(k) : k \in 1..MaxN} \cup {Box(<<k>>) : k \in 1..MaxActDim}}

InitKL == InitWith(KLObjects)

NextKL ==
    /\ ac.res.op = "none"
    /\ \E old \in ActorNames, new \in ActorNames, n \in 1..MaxBatch :
          \E x \in AllOutputs(ac.pi, n), y \in PeakedOutputs(ac.pi, n) :
             calculate_kl(old, new, n, [m \in ActorNames |-> IF m = old THEN x ELSE y])

SpecKL == InitKL /\ [][NextKL]_vars

\* ====================================================== ReplayBuffer claims

\* C1: after n appends and no other mutating call on a buffer of capacity
\* C >= 1, the count is min(n, C) and the stored sequence is the last
\* min(n, C) appended transitions in insertion order.
C1_FifoKeepsLastAppended ==
    ~loaded =>
        LET n == Len(appended)
            m == IF n < max_size THEN n ELSE max_size
        IN  /\ size = m
            /\ buffer.items = SubSeq(appended, n - m + 1, n)

\* C1 witness: a full buffer has evicted its oldest transition, which was
\* different from the one that is now the oldest.
C1_Witness ==
    /\ ~loaded
    /\ Len(appended) > max_size
    /\ appended[1] # appended[Len(appended) - max_size + 1]
    /\ last.op = "append"

\* C2: in every reachable state the count used by sample is at most the
\* capacity and equals the number of stored transitions, also after a
\* successful load, so sample never indexes past the stored entries.
C2_CountIsStoredLength ==
    /\ size <= max_size
    /\ size = Len(buffer.items)
    /\ last.op = "sample" => last.outcome # "IndexError"

\* C3: sample(k) with 1 <= k <= count picks k pairwise distinct indices of
\* [0, count) and returns five sequences of length k whose position j all
\* come from the j-th sampled transition.
C3_SampleAlignedBatch ==
    (last.op = "sample" /\ last.k >= 1 /\ last.k <= last.pre.size) =>
        /\ last.outcome = "ok"
        /\ Len(last.idxs) = last.k
        /\ \A i, j \in 1..last.k : i # j => last.idxs[i] # last.idxs[j]
        /\ \A j \in 1..last.k : last.idxs[j] >= 0 /\ last.idxs[j] < last.pre.size
        /\ Len(last.ret) = 5
        /\ \A f \in 1..5 :
              /\ Len(last.ret[f]) = last.k
              /\ \A j \in 1..last.k :
                    last.ret[f][j] = last.pre.buffer.items[last.idxs[j] + 1][f]

\* C4: sample(k) with k > count fails with the sampling error instead of
\* returning a batch, and leaves contents, order, count and capacity as
\* they were.
C4_OversizedSampleFails ==
    (last.op = "sample" /\ last.k > last.pre.size) =>
        /\ last.outcome = "ValueError"
        /\ last.ret = NoRet
        /\ Pre = last.pre

\* C4 witness: more was asked of a non-empty buffer than it holds.
C4_Witness ==
    /\ last.op = "sample"
    /\ last.pre.size >= 1
    /\ last.k > last.pre.size
    /\ last.outcome = "ValueError"

\* C5: calling size() on any reachable buffer returns the number of stored
\* transitions without an error.
C5_SizeCallReturnsCount ==
    last.op = "size" =>
        /\ last.outcome = "ok"
        /\ last.ret = <<Len(buffer.items)>>

\* C6: save on a buffer A reached by appends, then load on a freshly
\* constructed buffer of the same capacity, gives that buffer A's ordered
\* sequence; save leaves A as it was.
C6_SaveLoadRoundTrip ==
    /\ (/\ last.op = "load"
        /\ saved.valid /\ saved.onlyAppends
        /\ saved.max_size = max_size
        /\ last.pre.buffer = Deque(max_size) /\ last.pre.size = 0)
       => (/\ last.outcome = "ok"
           /\ buffer.items = saved.items
           /\ buffer.maxlen = max_size)
    /\ last.op = "save" => (Pre = last.pre /\ saved.items = buffer.items)

\* C6 witness: a fresh buffer has loaded a sequence saved at full capacity
\* whose first two transitions differ, and holds it in the same order.
C6_Witness ==
    /\ last.op = "load" /\ last.outcome = "ok"
    /\ saved.valid /\ saved.onlyAppends
    /\ last.pre.buffer = Deque(max_size) /\ last.pre.size = 0
    /\ Len(saved.items) = max_size /\ max_size >= 2
    /\ saved.items[1] # saved.items[2]
    /\ buffer.items = saved.items

\* C7: load on a buffer whose capacity differs from the saved container's
\* maximum length fails with the capacity assertion and never succeeds.
C7_LoadRejectsOtherCapacity ==
    (last.op = "load" /\ file # NoFile /\ file.maxlen # max_size) =>
        last.outcome = "AssertionError"

\* C7 witness: a saved container that fits by length but not by maxlen was
\* loaded and rejected.
C7_Witness ==
    /\ last.op = "load"
    /\ file # NoFile /\ file.maxlen # max_size
    /\ Len(file.listitems) <= max_size
    /\ last.outcome = "AssertionError"

\* C8 as stated: sample(batch_size) with batch_size <= 0 returns an empty
\* result rather than raising, on any buffer state.
C8_NonPositiveSampleIsEmpty ==
    (last.op = "sample" /\ last.k <= 0) =>
        (last.outcome = "ok" /\ last.ret = <<>>)

\* C8 amended: sample(0) returns an empty result on any buffer state,
\* the empty buffer included; a negative batch_size raises ValueError.
C8_ZeroSampleIsEmpty ==
    /\ (last.op = "sample" /\ last.k = 0) =>
          (last.outcome = "ok" /\ last.ret = <<>> /\ Pre = last.pre)
    /\ (last.op = "sample" /\ last.k < 0) =>
          (last.outcome = "ValueError" /\ last.ret = NoRet)

\* C8 witness: sample(0) on the empty buffer returned the empty list.
C8_Witness ==
    /\ last.op = "sample" /\ last.k = 0
    /\ last.pre.size = 0 /\ last.pre.buffer.items = <<>>
    /\ last.outcome = "ok" /\ last.ret = <<>>

\* C15: a load that fails with the capacity-mismatch error leaves the
\* receiving buffer as it was: the same stored sequence, the same count and
\* the same effective capacity (the maxlen that bounds later appends).
C15_FailedLoadLeavesBufferUnchanged ==
    (last.op = "load" /\ last.outcome = "AssertionError") =>
        /\ buffer.items = last.pre.buffer.items
        /\ size = last.pre.size
        /\ buffer.maxlen = last.pre.buffer.maxlen

\* ======================================================= ActorCritic claims

\* C9: constructing MLPActorCritic or CNNActorCritic with an action space
\* that is neither Discrete nor Box is rejected with an error; no
\* construction returns an object without a live policy and a snapshot.
C9_UnsupportedSpaceRejected ==
    /\ (ac.cls # "none" /\ ac.space.kind \notin {"Discrete", "Box"}) => ac.outcome # "ok"
    /\ (ac.cls # "none" /\ ac.outcome = "ok") => {"pi", "pi_old"} \subseteq ac.attrs

\* C10: a completed construction has picked the actor from the action
\* space: Discrete gives a categorical policy and snapshot of width n, Box
\* gives a Gaussian policy and snapshot of width shape[0]; policy and
\* snapshot are of one class, MLP or CNN as the constructed class; and a
\* Discrete space or a Box with at least one axis is not what makes a
\* construction fail.
C10_VariantFromActionSpace ==
    LET family == IF ac.cls = "MLPActorCritic" THEN "MLP" ELSE "CNN"
        CatClass == IF family = "MLP" THEN "MLPCategoricalActor" ELSE "CNNCategoricalActor"
        GaussClass == IF family = "MLP" THEN "MLPGaussianActor" ELSE "CNNGaussianActor"
        CriticClass == IF family = "MLP" THEN "MLPCritic" ELSE "CNNCritic"
        supported == \/ ac.space.kind = "Discrete"
                     \/ ac.space.kind = "Box" /\ Len(ac.space.shape) >= 1
    IN  /\ (ac.outcome = "ok" /\ ac.space.kind = "Discrete") =>
              /\ ac.pi.class = CatClass /\ ac.pi_old.class = CatClass
              /\ ac.pi.net.out = ac.space.n /\ ac.pi_old.net.out = ac.space.n
        /\ (ac.outcome = "ok" /\ ac.space.kind = "Box") =>
              /\ ac.pi.class = GaussClass /\ ac.pi_old.class = GaussClass
              /\ ac.pi.net.out = ac.space.shape[1] /\ ac.pi_old.net.out = ac.space.shape[1]
              /\ ac.pi.log_std = ac.space.shape[1] /\ ac.pi_old.log_std = ac.space.shape[1]
        /\ (ac.outcome = "ok" /\ "pi" \in ac.attrs) =>
              /\ ac.pi.class = ac.pi_old.class
              /\ ac.v.class = CriticClass
        /\ (ac.cls = "MLPActorCritic" /\ supported /\ Len(ac.obs_shape) >= 1) =>
              ac.outcome = "ok"
        /\ (ac.cls = "CNNActorCritic" /\ supported /\ Len(ac.obs_shape) = 3 /\ ac.conv = <<>>) =>
              ac.outcome = "ok"

\* C10 witness: a CNN construction over a Box whose two axes differ took
\* its action dimension from the first axis.
C10_Witness ==
    /\ ac.cls = "CNNActorCritic" /\ ac.outcome = "ok"
    /\ ac.space.kind = "Box" /\ Len(ac.space.shape) = 2
    /\ ac.space.shape[1] # ac.space.shape[2]
    /\ ac.pi.class = "CNNGaussianActor" /\ ac.pi_old.class = "CNNGaussianActor"
    /\ ac.pi.net.out = ac.space.shape[1]

\* C11: the old-policy snapshot is an instance of its own: its parameters
\* are those its own constructor call drew, not the live policy's, and they
\* stay so through every step, act, forward and calculate_kl.
C11_SnapshotParamsUntouched ==
    "pi_old" \in ac.attrs =>
        /\ ac.pi_old.id # ac.pi.id
        /\ ac.mods["pi_old"].params = ac.pi_old.id
        /\ ac.mods["pi_old"].params # ac.mods["pi"].params

\* a CNN actor-critic with BatchNorm layers after a step and then
\* calculate_kl(pi_old, pi, obs): the snapshot has been run forward in
\* training mode, which rewrote its running statistics and nothing else
C11_Witness ==
    /\ ac.res.op = "calculate_kl"
    /\ ac.res.old = "pi_old"
    /\ ac.res.new = "pi"
    /\ ~ac.mods["pi"].training
    /\ ac.mods["pi_old"].training
    /\ ac.mods["pi_old"].stats = "observations"
    /\ ac.mods["pi_old"].params = ac.pi_old.id
    /\ ac.mods["pi_old"].params # ac.mods["pi"].params

\* C12: CNNActorCritic.step on one unbatched (C, H, W) observation returns
\* an action of the natural shape (scalar for Discrete, length act_dim for
\* Box), a value of shape () and a log-probability of shape ().
C12_UnbatchedStepShapes ==
    (/\ ac.cls = "CNNActorCritic"
     /\ ac.res.op = "step"
     /\ ac.res.n = 0
     /\ "pi" \in ac.attrs)
    => /\ ac.res.outcome = "ok"
       /\ ac.res.a.shape = (IF ac.space.kind = "Discrete" THEN <<>> ELSE <<ac.pi.net.out>>)
       /\ ac.res.v.shape = <<>>
       /\ ac.res.logp.shape = <<>>

\* C13: calculate_kl with the same policy as old and as new evaluates to 0,
\* for each of the four actor classes and every observation batch.
C13_SelfKLIsZero ==
    (ac.res.op = "calculate_kl" /\ ac.res.old = ac.res.new) => ac.res.kl = "zero"

\* C14: in step on a batch of N >= 1 observations that returns, the
\* log-probability returned for observation i is made of the action sampled
\* for observation i and the distribution of observation i only.
C14_StepLogProbPerObservation ==
    (ac.res.op = "step" /\ ac.res.n >= 1 /\ ac.res.outcome = "ok")
    => /\ ac.res.logp.shape = <<ac.res.n>>
       /\ \A ix \in DOMAIN ac.res.logp.at :
             \A t \in ac.res.logp.at[ix] : t.dist.obs = ix[1] /\ t.act.obs = ix[1]

====
